---------------------------- MODULE Spec2Model ----------------------------
(***************************************************************************)
(* A model of keaz/rchess: the board of 64 squares, the six piece rule     *)
(* modules (can_move_to, move_to, possible_moves), the king-safety         *)
(* analyser (is_check, can_king_move_safe_position) and the one-ply move   *)
(* selector (generate_move).                                               *)
(*                                                                         *)
(* A Rust panic (an index outside the squares vector) is the outcome       *)
(* "Panic" of the operation that raised it; it propagates to every caller. *)
(***************************************************************************)
EXTENDS Integers, Sequences, FiniteSets, TLC

VARIABLES squares, prev, last

vars == <<squares, prev, last>>

(***************************************************************************)
(* Program constants.                                                      *)
(***************************************************************************)
BOARD_SIZE == 8
BOARD_SQUARES == BOARD_SIZE * BOARD_SIZE
CharA == 97
KingValue == 255

(***************************************************************************)
(* Bounds of the model.                                                    *)
(***************************************************************************)
MaxPlaced == 2

Cells == 0 .. (BOARD_SQUARES - 1)
Colors == {"White", "Black"}
Kinds == {"Pawn", "Rook", "Bishop", "Knight", "Queen", "King"}

(***************************************************************************)
(* Rust integer arithmetic: / and % truncate towards zero; `as u8` and     *)
(* `as i8` keep the low eight bits.                                        *)
(***************************************************************************)
Abs(n) == IF n < 0 THEN -n ELSE n
TruncDiv(a, b) == IF a >= 0 THEN a \div b ELSE -((-a) \div b)
TruncRem(a, b) == a - b * TruncDiv(a, b)
AsU8(n) == n % 256
AsI8(n) == ((n + 128) % 256) - 128
AsI16(n) == ((n + 32768) % 65536) - 32768

(***************************************************************************)
(* Position: x is the file's character code, y the rank.                   *)
(***************************************************************************)
Position_new(x, y) == [x |-> x, y |-> y]
to_index(p) == (p.x - CharA) + AsI8(AsI8(p.y - 1) * 8)
\* The conversion with ranks counted from 0.
from_index_rank_from_zero(index) ==
    [x |-> AsU8(TruncRem(index, 8) + CharA), y |-> AsI8(TruncDiv(index, 8))]

from_index(index) ==
    [x |-> AsU8(TruncRem(index, 8) + CharA), y |-> AsI8(TruncDiv(index, 8) + 1)]

(***************************************************************************)
(* PieceType values; Option<PieceType> is <<>> (None) or <<piece>> (Some). *)
(* `first` is the pawn's is_first_move flag (FALSE for the other kinds).   *)
(***************************************************************************)
Piece(kind, color, pos, first) ==
    [kind |-> kind, color |-> color, pos |-> pos, first |-> first]
None == <<>>
Some(p) == <<p>>
IsSome(o) == Len(o) = 1
Unwrap(o) == o[1]
OppositeColor(c) == IF c = "White" THEN "Black" ELSE "White"

value(p) ==
    CASE p.kind = "Pawn" -> 1
      [] p.kind = "Knight" -> 3
      [] p.kind = "Bishop" -> 3
      [] p.kind = "Rook" -> 5
      [] p.kind = "Queen" -> 9
      [] OTHER -> KingValue

(***************************************************************************)
(* Board: the vector of 64 squares, each with its fixed coordinates.       *)
(***************************************************************************)
get_squares ==
    [i \in Cells |->
        [piece |-> None, x |-> CharA + (i % 8), y |-> (i \div 8) + 1]]

BackRank == <<"Rook", "Knight", "Bishop", "Queen", "King", "Bishop", "Knight", "Rook">>

fill_white(sq) ==
    [i \in Cells |->
        IF i < 8
        THEN [sq[i] EXCEPT !.piece =
                 Some(Piece(BackRank[i + 1], "White", Position_new(CharA + i, 1), FALSE))]
        ELSE IF i < 16
        THEN [sq[i] EXCEPT !.piece =
                 Some(Piece("Pawn", "White", Position_new(AsU8(AsI8(i - 8 + CharA)), 2), TRUE))]
        ELSE sq[i]]

fill_black(sq) ==
    [i \in Cells |->
        IF i >= 56
        THEN [sq[i] EXCEPT !.piece =
                 Some(Piece(BackRank[i - 55], "Black", Position_new(CharA + (i - 56), 8), FALSE))]
        ELSE IF i >= 48
        THEN [sq[i] EXCEPT !.piece =
                 Some(Piece("Pawn", "Black", Position_new(AsU8(AsI8(i - 48 + CharA)), 7), TRUE))]
        ELSE sq[i]]

new_board == fill_black(fill_white(get_squares))
empty_board == get_squares

InVec(index) == index >= 0 /\ index < BOARD_SQUARES

\* board.square(&position): the access is defined only inside the vector.
square(board, position) == board[to_index(position)]
SquareOk(position) == InVec(to_index(position))

\* board.square_mut(&position).piece = value
square_mut_set(board, position, o) ==
    [board EXCEPT ![to_index(position)].piece = o]

\* The squares in vector order.
CellSeq == [k \in 1 .. BOARD_SQUARES |-> k - 1]

\* The pieces of one colour, in vector order (the filter of both getters).
PiecesFrom(board, color) ==
    LET held == SelectSeq(CellSeq, LAMBDA i :
                    IsSome(board[i].piece) /\ Unwrap(board[i].piece).color = color)
    IN  [k \in 1 .. Len(held) |-> Unwrap(board[held[k]].piece)]

get_all_white_pieces(board) == PiecesFrom(board, "White")
get_all_black_pieces(board) == PiecesFrom(board, "Black")
PiecesOf(board, color) ==
    IF color = "White" THEN get_all_white_pieces(board) ELSE get_all_black_pieces(board)

(***************************************************************************)
(* Path walks of the sliding pieces.  The loop reads the square at `index` *)
(* (at |index| where the source writes index.abs()) until index equals     *)
(* new_index; a read outside the vector panics.                            *)
(***************************************************************************)
RECURSIVE PathWalk(_, _, _, _, _)
PathWalk(board, index, new_index, step, useAbs) ==
    IF index = new_index THEN "Ok"
    ELSE LET at == from_index(IF useAbs THEN Abs(index) ELSE index)
         IN  IF ~SquareOk(at) THEN "Panic"
             ELSE IF IsSome(square(board, at).piece) THEN "BlockedMove"
             ELSE PathWalk(board, index + step, new_index, step, useAbs)

\* The path walk that never looks at a square.
rook_move_unchecked(board, old_index, new_index, jump) == "Ok"

rook_move(board, old_index, new_index, jump) ==
    IF TruncRem(jump, 8) = 0
    THEN IF new_index > old_index
         THEN PathWalk(board, old_index + 8, new_index, 8, FALSE)
         ELSE PathWalk(board, old_index - 8, new_index, -8, FALSE)
    ELSE IF new_index > old_index
         THEN PathWalk(board, old_index + 1, new_index, 1, FALSE)
         ELSE PathWalk(board, old_index - 1, new_index, -1, FALSE)

bishop_move(board, old_index, new_index, jump) ==
    IF TruncRem(jump, 7) = 0
    THEN IF new_index > old_index
         THEN PathWalk(board, old_index + 7, new_index, 7, FALSE)
         ELSE PathWalk(board, old_index - 7, new_index, -7, TRUE)
    ELSE IF new_index > old_index
         THEN PathWalk(board, old_index + 9, new_index, 9, FALSE)
         ELSE PathWalk(board, old_index - 9, new_index, -9, TRUE)

\* The target holds a piece of the mover's colour.
OwnPieceAt(board, position, color) ==
    /\ IsSome(square(board, position).piece)
    /\ Unwrap(square(board, position).piece).color = color

\* The end of can_move_to for rook, bishop, queen and king: `found` is what the
\* path walk (the scan of the opposing pieces for the king) returned; after an
\* Ok the target square is read for a piece of the mover's colour.
Closing(found, board, position, color) ==
    IF found # "Ok" THEN found
    ELSE IF ~SquareOk(position) THEN "Panic"
    ELSE IF OwnPieceAt(board, position, color) THEN "InvalidCapture"
    ELSE "Ok"

rook_can_move_to(current_position, color, position, board) ==
    LET new_index == to_index(position)
        old_index == to_index(current_position)
        jump == new_index - old_index
    IN  IF Abs(jump) < 8 /\ position.y # current_position.y THEN "InvalidMove"
        ELSE IF TruncRem(jump, 8) # 0 /\ TruncDiv(jump, 8) # 0 THEN "InvalidMove"
        ELSE Closing(rook_move(board, old_index, new_index, jump), board, position, color)

bishop_can_move_to(current_position, color, position, board) ==
    LET new_index == to_index(position)
        old_index == to_index(current_position)
        jump == new_index - old_index
    IN  IF TruncRem(jump, 7) # 0 /\ TruncRem(jump, 9) # 0 THEN "InvalidMove"
        ELSE Closing(bishop_move(board, old_index, new_index, jump), board, position, color)

knight_can_move_to(current_position, color, position, board) ==
    LET new_index == to_index(position)
        old_index == to_index(current_position)
        jump == Abs(new_index - old_index)
    IN  IF new_index < 0 \/ new_index >= BOARD_SQUARES THEN "InvalidMove"
        ELSE IF jump # 6 /\ jump # 10 /\ jump # 15 /\ jump # 17 THEN "InvalidMove"
        ELSE IF OwnPieceAt(board, position, color) THEN "InvalidCapture"
        ELSE "Ok"

queen_can_move_to(current_position, color, position, board) ==
    LET new_index == to_index(position)
        old_index == to_index(current_position)
        jump == new_index - old_index
        walk == IF TruncRem(jump, 8) = 0
                   \/ (TruncDiv(jump, 8) = 0 /\ position.y = current_position.y)
                THEN rook_move(board, old_index, new_index, jump)
                ELSE IF TruncRem(jump, 7) = 0 \/ TruncRem(jump, 9) = 0
                THEN bishop_move(board, old_index, new_index, jump)
                ELSE "Ok"
    IN  IF /\ TruncRem(jump, 7) # 0 /\ TruncRem(jump, 9) # 0
           /\ TruncRem(jump, 8) # 0 /\ TruncDiv(jump, 8) # 0 THEN "InvalidMove"
        ELSE IF Abs(jump) < 7 /\ position.y # current_position.y THEN "InvalidMove"
        ELSE Closing(walk, board, position, color)

pawn_can_move_to(current_position, color, is_first_move, position, board) ==
    LET new_index == to_index(position)
        old_index == to_index(current_position)
        signed == new_index - old_index
        jump == Abs(signed)
    IN  IF color = "Black" /\ signed > 0 THEN "InvalidMove"
        ELSE IF color = "White" /\ signed < 0 THEN "InvalidMove"
        ELSE IF jump # 8 /\ jump # 16 /\ jump # 7 /\ jump # 9 THEN "InvalidMove"
        ELSE IF ~is_first_move /\ jump = 16 THEN "InvalidMove"
        ELSE IF ~SquareOk(position) THEN "Panic"
        ELSE IF (jump = 8 \/ jump = 16) /\ IsSome(square(board, position).piece)
             THEN "InvalidMove"
        ELSE IF (jump = 7 \/ jump = 9) /\ ~IsSome(square(board, position).piece)
             THEN "InvalidMove"
        ELSE IF OwnPieceAt(board, position, color) THEN "InvalidMove"
        ELSE "Ok"

\* The pawn test shared by king::can_move_to and is_check.
PawnIndexTest(pawn_index, new_index) ==
    pawn_index = new_index + 7 \/ pawn_index = new_index + 9

\* PieceType::can_move_to for the kinds the king rules delegate to.
SliderCanMoveTo(piece, position, board) ==
    CASE piece.kind = "Rook" -> rook_can_move_to(piece.pos, piece.color, position, board)
      [] piece.kind = "Bishop" -> bishop_can_move_to(piece.pos, piece.color, position, board)
      [] piece.kind = "Knight" -> knight_can_move_to(piece.pos, piece.color, position, board)
      [] OTHER -> queen_can_move_to(piece.pos, piece.color, position, board)

\* The first verdict of a loop that returns early: verdicts[k] is what the
\* k-th iteration decides ("Next" to go on), otherwise the loop's closing value.
FirstVerdict(verdicts, otherwise) ==
    LET decisive == {k \in 1 .. Len(verdicts) : verdicts[k] # "Next"}
    IN  IF decisive = {} THEN otherwise
        ELSE verdicts[CHOOSE k \in decisive : \A j \in decisive : k <= j]

\* What an iteration decides from the can_move_to of an opposing rook, bishop,
\* knight or queen: `hit` when it is Ok.
ThreatVerdict(r, hit) ==
    IF r = "Panic" THEN "Panic"
    ELSE IF r = "Ok" THEN hit
    ELSE "Next"

\* One iteration of the loop of king::can_move_to over the opposing pieces.
KingThreat(piece, position, board) ==
    LET new_index == to_index(position)
    IN  CASE piece.kind = "King" ->
                LET king_index == to_index(piece.pos)
                IN  IF \/ king_index = new_index + 7 \/ king_index = new_index - 7
                       \/ king_index = new_index + 8 \/ king_index = new_index - 8
                       \/ king_index = new_index + 9 \/ king_index = new_index - 9
                       \/ king_index = new_index + 1 \/ king_index = new_index - 1
                    THEN "UnSafeKing"
                    ELSE "Next"
          [] piece.kind = "Pawn" ->
                IF PawnIndexTest(to_index(piece.pos), new_index)
                THEN "UnSafeKing"
                ELSE "Next"
          [] OTHER -> ThreatVerdict(SliderCanMoveTo(piece, position, board), "UnSafeKing")

\* The loop of king::can_move_to over the opposing pieces, in vector order.
KingScan(others, position, board) ==
    FirstVerdict([k \in 1 .. Len(others) |-> KingThreat(others[k], position, board)], "Ok")

king_can_move_to(current_position, color, position, board) ==
    LET new_index == to_index(position)
        old_index == to_index(current_position)
        jump == Abs(new_index - old_index)
    IN  IF jump # 7 /\ jump # 8 /\ jump # 9 /\ jump # 1 THEN "InvalidMove"
        ELSE Closing(KingScan(PiecesOf(board, OppositeColor(color)), position, board),
                     board, position, color)

\* PieceType::can_move_to: one arm per kind.
can_move_to(piece, position, board) ==
    CASE piece.kind = "Pawn" ->
            pawn_can_move_to(piece.pos, piece.color, piece.first, position, board)
      [] piece.kind = "King" -> king_can_move_to(piece.pos, piece.color, position, board)
      [] OTHER -> SliderCanMoveTo(piece, position, board)

(***************************************************************************)
(* move_to of each rule module: the legality check, then the two writes.   *)
(* A result is [res, board, captured]; on an error the board is the one    *)
(* that was passed in.                                                     *)
(***************************************************************************)
MoveResult(res, board, captured) == [res |-> res, board |-> board, captured |-> captured]

\* The writes without the one that clears the source square.
ApplyMoveKeepingSource(board, current_position, position, moved) ==
    MoveResult("Ok", square_mut_set(board, position, Some(moved)),
               square(board, position).piece)

ApplyMove(board, current_position, position, moved) ==
    LET captured_piece == square(board, position).piece
        cleared == square_mut_set(board, current_position, None)
    IN  MoveResult("Ok", square_mut_set(cleared, position, Some(moved)), captured_piece)

\* self.can_move_to(position, board)?, then the writes.
CheckedMove(can, board, current_position, position, moved) ==
    IF can # "Ok" THEN MoveResult(can, board, None)
    ELSE ApplyMove(board, current_position, position, moved)

king_move_to(king, position, board) ==
    IF king.kind # "King" THEN MoveResult("InvalidPiece", board, None)
    ELSE CheckedMove(king_can_move_to(king.pos, king.color, position, board),
                     board, king.pos, position, Piece("King", king.color, position, FALSE))

rook_move_to(rook, position, board) ==
    IF rook.kind # "Rook" THEN MoveResult("InvalidPiece", board, None)
    ELSE CheckedMove(rook_can_move_to(rook.pos, rook.color, position, board),
                     board, rook.pos, position, Piece("Rook", rook.color, position, FALSE))

bishop_move_to(bishop, position, board) ==
    IF bishop.kind # "Bishop" THEN MoveResult("InvalidPiece", board, None)
    ELSE CheckedMove(bishop_can_move_to(bishop.pos, bishop.color, position, board),
                     board, bishop.pos, position, Piece("Bishop", bishop.color, position, FALSE))

knight_move_to(knight, position, board) ==
    IF knight.kind # "Knight" THEN MoveResult("InvalidPiece", board, None)
    ELSE CheckedMove(knight_can_move_to(knight.pos, knight.color, position, board),
                     board, knight.pos, position, Piece("Knight", knight.color, position, FALSE))

queen_move_to(queen, position, board) ==
    IF queen.kind # "Queen" THEN MoveResult("InvalidPiece", board, None)
    ELSE CheckedMove(queen_can_move_to(queen.pos, queen.color, position, board),
                     board, queen.pos, position, Piece("Queen", queen.color, position, FALSE))

pawn_move_to(pawn, position, board) ==
    IF pawn.kind # "Pawn" THEN MoveResult("InvalidPiece", board, None)
    ELSE CheckedMove(pawn_can_move_to(pawn.pos, pawn.color, pawn.first, position, board),
                     board, pawn.pos, position, Piece("Pawn", pawn.color, position, FALSE))

\* A rule module's move_to called by name, whatever the piece's tag.
module_move_to(module, piece, position, board) ==
    CASE module = "King" -> king_move_to(piece, position, board)
      [] module = "Rook" -> rook_move_to(piece, position, board)
      [] module = "Bishop" -> bishop_move_to(piece, position, board)
      [] module = "Knight" -> knight_move_to(piece, position, board)
      [] module = "Queen" -> queen_move_to(piece, position, board)
      [] OTHER -> pawn_move_to(piece, position, board)

\* PieceType::move_to: one arm per kind.
move_to(piece, position, board) == module_move_to(piece.kind, piece, position, board)

(***************************************************************************)
(* Board::move_piece of the BoardTrait implementation: the piece is taken  *)
(* out of its square before the rule module is asked.                      *)
(***************************************************************************)
move_piece(board, from, to) ==
    LET source == to_index(from)
        piece == board[source].piece
        taken == [board EXCEPT ![source].piece = None]
    IN  IF ~IsSome(piece) THEN MoveResult("InvalidMove", taken, None)
        ELSE move_to(Unwrap(piece), to, taken)

(***************************************************************************)
(* clone_as_a: a boxed deep copy of the board.  A clone is [tmp, alias]:   *)
(* tmp is the board the holder reads and writes, alias tells whether those *)
(* writes are also writes to the board it was cloned from.                 *)
(***************************************************************************)
\* A box that shares the squares of the board instead of copying them.
clone_as_alias(board) == [tmp |-> board, alias |-> TRUE]

clone_as_a(board) == [tmp |-> board, alias |-> FALSE]

\* The caller's board once the holder of `clone` has finished with it.
BoardAfter(board, clone) == IF clone.alias THEN clone.tmp ELSE board

(***************************************************************************)
(* King safety.  Boolean results are "True" and "False"; "Panic" as above. *)
(***************************************************************************)
\* One iteration of the loop of is_check over the opposing pieces.
CheckThreat(piece, position, board) ==
    CASE piece.kind = "King" -> "Next"
      [] piece.kind = "Pawn" ->
            IF PawnIndexTest(to_index(piece.pos), to_index(position))
            THEN "True"
            ELSE "Next"
      [] OTHER -> ThreatVerdict(SliderCanMoveTo(piece, position, board), "True")

CheckScan(others, position, board) ==
    FirstVerdict([k \in 1 .. Len(others) |-> CheckThreat(others[k], position, board)],
                 "False")

is_check(king, board) ==
    IF king.kind = "King"
    THEN CheckScan(PiecesOf(board, OppositeColor(king.color)), king.pos, board)
    ELSE "False"

\* What the closure of pieces.iter().any(..) decides from its test r.
AnyVerdict(r) == IF r = "False" THEN "Next" ELSE r

\* Board::is_king_check(color): pieces.iter().any(..), the first piece whose
\* test is true (or panics) decides.
is_king_check(board, color) ==
    LET pieces == PiecesOf(board, color)
    IN  FirstVerdict([k \in 1 .. Len(pieces) |-> AnyVerdict(is_check(pieces[k], board))],
                     "False")

\* The order in which can_king_move_safe_position probes the neighbours.
ProbeDeltas == <<7, -7, 8, -8, 9, -9, 1, -1>>

\* The state of the probes: ret is the value returned ("Next" while the
\* function goes on), clone the copy and probed the vector indices read so far.
ProbeState(ret, clone, probed) == [ret |-> ret, clone |-> clone, probed |-> probed]

\* A probe that found an enemy piece, removed it and asked is_check (chk).
ProbeChecked(chk, removed, read) ==
    ProbeState(IF chk = "True" THEN "Next" ELSE chk, removed, read)

\* The probe of the neighbour at current_index + d.
Probe(before, color, current_index, d) ==
    LET guarded == IF d > 0 THEN current_index < 63 ELSE current_index > 0
        at == from_index(current_index + d)
        read == Append(before.probed, to_index(at))
        sq == square(before.clone.tmp, at)
        next_position == Position_new(sq.x, sq.y)
        removed == [before.clone EXCEPT
                       !.tmp = square_mut_set(before.clone.tmp, next_position, None)]
    IN  IF before.ret # "Next" \/ ~guarded THEN before
        ELSE IF ~SquareOk(at) THEN ProbeState("Panic", before.clone, read)
        ELSE IF IsSome(sq.piece) /\ Unwrap(sq.piece).color # color
        THEN ProbeChecked(is_check(Piece("King", color, next_position, FALSE), removed.tmp),
                          removed, read)
        ELSE ProbeState("Next", before.clone, read)

\* The probes in order; with none returning, the function returns true.
ProbeFrom(tmp_board, color, current_index) ==
    LET run[k \in 0 .. Len(ProbeDeltas)] ==
            IF k = 0 THEN ProbeState("Next", tmp_board, <<>>)
            ELSE Probe(run[k - 1], color, current_index, ProbeDeltas[k])
        done == run[Len(ProbeDeltas)]
    IN  IF done.ret = "Next" THEN [done EXCEPT !.ret = "True"] ELSE done

\* king::can_king_move_safe_position, with the clone it ends with.
KingEscapeRun(king, board) ==
    IF king.kind = "King"
    THEN LET cloned == clone_as_a(board)
             tmp_board == [cloned EXCEPT !.tmp = square_mut_set(cloned.tmp, king.pos, None)]
         IN  ProbeFrom(tmp_board, king.color, to_index(king.pos))
    ELSE [ret |-> "False", clone |-> [tmp |-> board, alias |-> FALSE], probed |-> <<>>]

can_king_move_safe_position(king, board) == KingEscapeRun(king, board).ret

\* The caller's state once the closure has run for a king with outcome r.
EscapeAfter(before, r) ==
    [ret |-> r.ret, board |-> BoardAfter(before.board, r.clone),
     probed |-> before.probed \o r.probed]

\* Board::can_king_move_safe_position(color): pieces.iter().any(..) as
\* [ret, board, probed]: the value returned, the caller's board afterwards and
\* the vector indices the probes read.
board_can_king_move_safe_position(board, color) ==
    LET pieces == PiecesOf(board, color)
        run[k \in 0 .. Len(pieces)] ==
            IF k = 0 THEN [ret |-> "False", board |-> board, probed |-> <<>>]
            ELSE LET before == run[k - 1]
                 IN  IF before.ret # "False" \/ pieces[k].kind # "King" THEN before
                     ELSE EscapeAfter(before, KingEscapeRun(pieces[k], before.board))
    IN  run[Len(pieces)]

(***************************************************************************)
(* possible_moves.  A result is [res, positions]: res is "Ok" or "Panic".  *)
(***************************************************************************)
Moves(res, positions) == [res |-> res, positions |-> positions]

\* One ray of a slider: valide_move at next_inndex while the loop condition
\* holds.  cond is "le" (next <= BOARD_SQUARES), "ge" (next >= 0) or "mod"
\* (next % 8 == 0).
RECURSIVE Ray(_, _, _, _, _, _)
Ray(color, board, next_inndex, step, cond, positions) ==
    LET goes == CASE cond = "le" -> next_inndex <= BOARD_SQUARES
                  [] cond = "ge" -> next_inndex >= 0
                  [] OTHER -> TruncRem(next_inndex, 8) = 0
        at == from_index(next_inndex)
    IN  IF ~goes THEN Moves("Ok", positions)
        ELSE IF ~SquareOk(at) THEN Moves("Panic", positions)
        ELSE LET sq == square(board, at)
                 here == Position_new(sq.x, sq.y)
             IN  IF IsSome(sq.piece)
                 THEN IF Unwrap(sq.piece).color # color
                      THEN Moves("Ok", Append(positions, here))
                      ELSE Moves("Ok", positions)
                 ELSE Ray(color, board, next_inndex + step, step, cond,
                          Append(positions, here))

\* The next ray of a slider, given as <<step, cond>>, after the rays before it.
NextRay(before, color, board, current_index, ray) ==
    IF before.res = "Panic" THEN before
    ELSE Ray(color, board, current_index + ray[1], ray[1], ray[2], before.positions)

\* The rays of a slider one after the other.
Rays(color, board, current_index, rays) ==
    LET run[k \in 0 .. Len(rays)] ==
            IF k = 0 THEN Moves("Ok", <<>>)
            ELSE NextRay(run[k - 1], color, board, current_index, rays[k])
    IN  run[Len(rays)]

rook_possible_moves(current_position, color, board) ==
    Rays(color, board, to_index(current_position),
         <<<<8, "le">>, <<1, "mod">>, <<-8, "ge">>, <<-1, "mod">>>>)

bishop_possible_moves(current_position, color, board) ==
    Rays(color, board, to_index(current_position),
         <<<<7, "le">>, <<9, "le">>, <<-7, "ge">>, <<-9, "ge">>>>)

\* The bishop's positions extended with the rook's.
Extend(bishop_positions, rook_positions) ==
    IF bishop_positions.res = "Panic" THEN bishop_positions
    ELSE IF rook_positions.res = "Panic" THEN rook_positions
    ELSE Moves("Ok", bishop_positions.positions \o rook_positions.positions)

queen_possible_moves(current_position, color, board) ==
    Extend(bishop_possible_moves(current_position, color, board),
           rook_possible_moves(current_position, color, board))

\* The positions a stepper's loop has pushed: can[k] is what can_move_to said
\* of the k-th candidate ("Skipped" for one the loop never asked about).
Pushed(can, current_index, moves) ==
    LET pushed == SelectSeq([k \in 1 .. Len(moves) |-> k], LAMBDA k : can[k] = "Ok")
    IN  IF \E k \in 1 .. Len(moves) : can[k] = "Panic" THEN Moves("Panic", <<>>)
        ELSE Moves("Ok", [n \in 1 .. Len(pushed) |->
                             from_index(current_index + moves[pushed[n]])])

\* The candidate loop of a stepper: every delta of `moves` through can_move_to.
\* bounded tells whether the loop skips candidates outside 0..63 first.
Steps(piece, board, moves, bounded) ==
    LET target(k) == to_index(piece.pos) + moves[k]
        skipped(k) == bounded /\ (target(k) < 0 \/ target(k) >= 64)
    IN  Pushed([k \in 1 .. Len(moves) |->
                   IF skipped(k) THEN "Skipped"
                   ELSE can_move_to(piece, from_index(target(k)), board)],
               to_index(piece.pos), moves)

knight_possible_moves(current_position, color, board) ==
    Steps(Piece("Knight", color, current_position, FALSE), board,
          <<6, 10, 15, 17, -6, -10, -15, -17>>, FALSE)

king_possible_moves(current_position, color, board) ==
    Steps(Piece("King", color, current_position, FALSE), board,
          <<7, 8, 9, 1, -7, -8, -9, -1>>, TRUE)

pawn_possible_moves(current_position, color, is_first_move, board) ==
    LET moves == CASE color = "Black" /\ is_first_move -> <<-8, -16, -7, -9>>
                   [] color = "Black" /\ ~is_first_move -> <<-8, -7, -9>>
                   [] color = "White" /\ is_first_move -> <<8, 16, 7, 9>>
                   [] OTHER -> <<8, 7, 9>>
    IN  Steps(Piece("Pawn", color, current_position, is_first_move), board,
              moves, FALSE)

\* PieceType::possible_moves: one arm per kind.
possible_moves(piece, board) ==
    CASE piece.kind = "Pawn" -> pawn_possible_moves(piece.pos, piece.color, piece.first, board)
      [] piece.kind = "Rook" -> rook_possible_moves(piece.pos, piece.color, board)
      [] piece.kind = "Bishop" -> bishop_possible_moves(piece.pos, piece.color, board)
      [] piece.kind = "Knight" -> knight_possible_moves(piece.pos, piece.color, board)
      [] piece.kind = "Queen" -> queen_possible_moves(piece.pos, piece.color, board)
      [] OTHER -> king_possible_moves(piece.pos, piece.color, board)

(***************************************************************************)
(* Board::evaluate: the material score of `color`, accumulated in an i16   *)
(* over the squares in vector order.                                       *)
(***************************************************************************)
\* The loop body that adds the value whatever the colour of the piece.
EvaluateSquareUnsigned(board, color, i) ==
    IF ~IsSome(board[i].piece) THEN 0
    ELSE AsI16(value(Unwrap(board[i].piece)))

\* What the loop body adds to the score for the square at index i.
EvaluateSquare(board, color, i) ==
    IF ~IsSome(board[i].piece) THEN 0
    ELSE LET piece == Unwrap(board[i].piece)
             value_i16 == AsI16(value(piece))
         IN  IF piece.color = color THEN value_i16 ELSE -value_i16

\* The loop over the squares lo..hi: 16-bit addition is associative, so the
\* additions are grouped by halves of the range.
RECURSIVE EvaluateLoop(_, _, _, _)
EvaluateLoop(board, color, lo, hi) ==
    IF lo = hi THEN EvaluateSquare(board, color, lo)
    ELSE LET mid == (lo + hi) \div 2
         IN  AsI16(EvaluateLoop(board, color, lo, mid)
                   + EvaluateLoop(board, color, mid + 1, hi))

evaluate(board, color) == EvaluateLoop(board, color, 0, BOARD_SQUARES - 1)

(***************************************************************************)
(* ai::generate_move.  best is [score, move], move an Option<(piece,       *)
(* position)>; a run is [res, best, board] with the caller's board after.  *)
(***************************************************************************)
GenRun(res, best, board) == [res |-> res, best |-> best, board |-> board]

\* The end of the inner loop's body: res is what move_to returned on the copy,
\* score the copy's evaluation, after the caller's board.
GenScored(piece, new_position, before, after, res, score) ==
    IF res = "Panic" THEN GenRun("Panic", before.best, after)
    ELSE IF res = "Ok" /\ score > before.best.score
    THEN GenRun("Ok", [score |-> score,
                       move |-> Some([piece |-> piece, position |-> new_position])],
                after)
    ELSE GenRun("Ok", before.best, after)

\* The inner loop's body once future_piece.move_to has run on the copy.
GenMoved(color, piece, new_position, before, cloned_board, moved) ==
    GenScored(piece, new_position, before,
              BoardAfter(before.board, [cloned_board EXCEPT !.tmp = moved.board]),
              moved.res, evaluate(moved.board, color))

\* The body of the inner loop for one position of the piece's possible_moves.
GenCloned(color, piece, new_position, before, cloned_board) ==
    GenMoved(color, piece, new_position, before, cloned_board,
             move_to(piece, new_position, cloned_board.tmp))

GenStep(color, piece, new_position, before) ==
    GenCloned(color, piece, new_position, before, clone_as_a(before.board))

\* The inner loop over positions[lo..hi] in order, entered with `before`: the
\* first half of the range, then the second half entered with its result.
RECURSIVE GenTargets(_, _, _, _, _, _)
GenTargets(color, piece, positions, lo, hi, before) ==
    IF lo > hi THEN before
    ELSE IF lo = hi THEN GenStep(color, piece, positions[lo], before)
    ELSE LET mid == (lo + hi) \div 2
             half == GenTargets(color, piece, positions, lo, mid, before)
         IN  IF half.res = "Panic" THEN half
             ELSE GenTargets(color, piece, positions, mid + 1, hi, half)

\* The body of the outer loop for one piece.
GenMoves(color, piece, before, moves) ==
    IF moves.res = "Panic" THEN GenRun("Panic", before.best, before.board)
    ELSE GenTargets(color, piece, moves.positions, 1, Len(moves.positions), before)

GenPiece(color, piece, before) ==
    GenMoves(color, piece, before, possible_moves(piece, before.board))

\* The outer loop over pieces[lo..hi] in vector order, split like the inner one.
RECURSIVE GenPieces(_, _, _, _, _)
GenPieces(color, pieces, lo, hi, before) ==
    IF lo > hi THEN before
    ELSE IF lo = hi THEN GenPiece(color, pieces[lo], before)
    ELSE LET mid == (lo + hi) \div 2
             half == GenPieces(color, pieces, lo, mid, before)
         IN  IF half.res = "Panic" THEN half
             ELSE GenPieces(color, pieces, mid + 1, hi, half)

GenerateMoveRun(color, board) ==
    LET pieces == PiecesOf(board, color)
    IN  GenPieces(color, pieces, 1, Len(pieces),
                  GenRun("Ok", [score |-> 0, move |-> None], board))

\* The value generate_move returns: "Panic", or the Option<(piece, position)>.
Returned(run) ==
    IF run.res = "Panic" THEN [res |-> "Panic", move |-> None]
    ELSE [res |-> "Ok", move |-> run.best.move]

generate_move(color, board) == Returned(GenerateMoveRun(color, board))

(***************************************************************************)
(* The state machine.  A behaviour sets a board up and applies one         *)
(* operation of the program to it: squares is the board, prev the board    *)
(* the operation was given, last the operation with what it returned.      *)
(***************************************************************************)
Placement(kind, color, cell) == [kind |-> kind, color |-> color, cell |-> cell]

\* The pieces a board is set up from, each on its square.
Pool ==
    { Placement("King", "White", 28), Placement("King", "White", 4),
      Placement("King", "White", 44), Placement("King", "Black", 60),
      Placement("King", "Black", 36), Placement("Queen", "White", 53),
      Placement("Queen", "Black", 61), Placement("Queen", "Black", 59),
      Placement("Rook", "Black", 60), Placement("Rook", "White", 0),
      Placement("Pawn", "Black", 35), Placement("Pawn", "Black", 37),
      Placement("Pawn", "White", 27), Placement("Bishop", "White", 27),
      Placement("Knight", "White", 18), Placement("Knight", "Black", 45) }

\* A set-up keeps one piece per square and one king per colour.
Consistent(ps) ==
    /\ \A p \in ps : \A q \in ps : p.cell = q.cell => p = q
    /\ \A p \in ps : \A q \in ps :
           (p.kind = "King" /\ q.kind = "King" /\ p.color = q.color) => p = q

\* The empty board with the pieces of ps written into their squares, as the
\* tests do through square_mut; a pawn off its home rank has moved before.
SetUp(ps) ==
    [i \in Cells |->
        IF \E p \in ps : p.cell = i
        THEN LET p == CHOOSE q \in ps : q.cell = i
             IN  [empty_board[i] EXCEPT !.piece =
                     Some(Piece(p.kind, p.color, from_index(i), FALSE))]
        ELSE empty_board[i]]

Boards ==
    {new_board} \cup
    {SetUp(ps) : ps \in {qs \in SUBSET Pool : Cardinality(qs) <= MaxPlaced /\ Consistent(qs)}}

Occupied(board) == {i \in Cells : IsSome(board[i].piece)}

Last(op, color, module, from, to, res, captured, move, probed) ==
    [op |-> op, color |-> color, module |-> module, from |-> from, to |-> to,
     res |-> res, captured |-> captured, move |-> move, probed |-> probed]

Init ==
    /\ squares \in Boards
    /\ prev = squares
    /\ last = Last("setup", "-", "-", 0, 0, "-", None, None, <<>>)

\* The step of an operation that was given the board in squares, left the
\* board `after` and returned what `returned` records.
Step(after, returned) ==
    /\ squares' = after
    /\ prev' = squares
    /\ last' = returned

Moved(op, module, from, to, r) ==
    Step(r.board, Last(op, "-", module, from, to, r.res, r.captured, None, <<>>))

Escaped(color, r) ==
    Step(r.board, Last("can_king_move_safe_position", color, "-", 0, 0, r.ret,
                       None, None, r.probed))

Generated(color, run) ==
    Step(run.board, Last("generate_move", color, "-", 0, 0, Returned(run).res,
                         None, Returned(run).move, <<>>))

\* board.move_piece(from, to).  With no piece on `from` the answer does not
\* depend on `to`, so one target stands for all.
MovePiece ==
    /\ last.op = "setup"
    /\ \E from \in Cells :
       \E to \in IF IsSome(squares[from].piece) THEN Cells ELSE {from} :
           Moved("move_piece", "-", from, to,
                 move_piece(squares, from_index(from), from_index(to)))

\* The move_to of rule module `module` called with the piece standing on
\* `from`; PieceType::move_to is the call with the piece's own module.
MoveTo ==
    /\ last.op = "setup"
    /\ \E module \in Kinds, from \in Occupied(squares), to \in Cells :
           Moved("move_to", module, from, to,
                 module_move_to(module, Unwrap(squares[from].piece),
                                from_index(to), squares))

\* board.is_king_check(color)
IsKingCheck ==
    /\ last.op = "setup"
    /\ \E color \in Colors :
           Step(squares, Last("is_king_check", color, "-", 0, 0,
                              is_king_check(squares, color), None, None, <<>>))

\* board.can_king_move_safe_position(color)
CanKingEscape ==
    /\ last.op = "setup"
    /\ \E color \in Colors :
           Escaped(color, board_can_king_move_safe_position(squares, color))

\* ai::generate_move(color, board)
GenerateMove ==
    /\ last.op = "setup"
    /\ \E color \in Colors : Generated(color, GenerateMoveRun(color, squares))

Next ==
    \/ MovePiece
    \/ MoveTo
    \/ IsKingCheck
    \/ CanKingEscape
    \/ GenerateMove

Spec == Init /\ [][Next]_vars

(***************************************************************************)
(* The rules of chess the claims speak of, by file and rank.               *)
(***************************************************************************)
File(i) == i % 8
Rank(i) == i \div 8
KingStep(a, b) == a # b /\ Abs(File(a) - File(b)) <= 1 /\ Abs(Rank(a) - Rank(b)) <= 1

\* The squares strictly between a and b on their common line.
Between(a, b) ==
    {c \in Cells :
        /\ c # a /\ c # b
        /\ (File(c) - File(a)) * (Rank(b) - Rank(a)) = (Rank(c) - Rank(a)) * (File(b) - File(a))
        /\ (File(c) - File(a)) * (File(c) - File(b)) <= 0
        /\ (Rank(c) - Rank(a)) * (Rank(c) - Rank(b)) <= 0}

Straight(a, b) == a # b /\ (File(a) = File(b) \/ Rank(a) = Rank(b))
Diagonal(a, b) == a # b /\ Abs(File(a) - File(b)) = Abs(Rank(a) - Rank(b))
Clear(board, a, b) == \A c \in Between(a, b) : ~IsSome(board[c].piece)

\* A pawn of `color` on p attacks t: one rank ahead, on an adjacent file.
PawnAttacks(color, p, t) ==
    /\ Rank(t) = Rank(p) + (IF color = "White" THEN 1 ELSE -1)
    /\ Abs(File(t) - File(p)) = 1

\* The piece on p attacks t.
Attacks(board, p, t) ==
    LET piece == Unwrap(board[p].piece)
    IN  CASE piece.kind = "Rook" -> Straight(p, t) /\ Clear(board, p, t)
          [] piece.kind = "Bishop" -> Diagonal(p, t) /\ Clear(board, p, t)
          [] piece.kind = "Queen" -> (Straight(p, t) \/ Diagonal(p, t)) /\ Clear(board, p, t)
          [] piece.kind = "Knight" ->
                {Abs(File(p) - File(t)), Abs(Rank(p) - Rank(t))} = {1, 2}
          [] piece.kind = "Pawn" -> PawnAttacks(piece.color, p, t)
          [] OTHER -> KingStep(p, t)

Attacked(board, t, by) ==
    \E p \in Occupied(board) :
        p # t /\ Unwrap(board[p].piece).color = by /\ Attacks(board, p, t)

\* The board with the king of `from` standing on `to`.
KingMoved(board, from, to) ==
    [board EXCEPT ![from].piece = None,
                  ![to].piece = Some([Unwrap(board[from].piece) EXCEPT !.pos = from_index(to)])]

ChessErrors == {"InvalidMove", "BlockedMove", "InvalidCapture", "UnSafeKing", "InvalidPiece"}

\* The squares of the given board that hold a king of the colour.
KingCells(board, color) ==
    {i \in Occupied(board) :
        Unwrap(board[i].piece).kind = "King" /\ Unwrap(board[i].piece).color = color}

\* The squares of the given board that hold an opposing piece of one of `kinds`.
Opposing(board, color, kinds) ==
    {i \in Occupied(board) :
        Unwrap(board[i].piece).color # color /\ Unwrap(board[i].piece).kind \in kinds}

\* The last operation was the king's own move_to from a square to a neighbour.
KingMoveAsked ==
    /\ last.op = "move_to" /\ last.module = "King"
    /\ Unwrap(prev[last.from].piece).kind = "King"
    /\ KingStep(last.from, last.to)

(***************************************************************************)
(* The claims.                                                             *)
(***************************************************************************)

\* C1: when move_piece or a rule module's move_to returns a ChessError, every
\* one of the 64 cells holds what it held before the call.
C1_ErrorLeavesBoard ==
    (last.op \in {"move_piece", "move_to"} /\ last.res \in ChessErrors) => squares = prev

\* C2: when move_to succeeds, the source cell is empty, the target cell holds
\* a piece of the same kind and colour positioned on the target, the value
\* returned is the piece that stood on the target before, and the other 62
\* cells are unchanged.
C2_MoveFrame ==
    (last.op \in {"move_piece", "move_to"} /\ last.res = "Ok") =>
        /\ squares[last.from].piece = None
        /\ IsSome(squares[last.to].piece)
        /\ Unwrap(squares[last.to].piece).kind = Unwrap(prev[last.from].piece).kind
        /\ Unwrap(squares[last.to].piece).color = Unwrap(prev[last.from].piece).color
        /\ Unwrap(squares[last.to].piece).pos = from_index(last.to)
        /\ last.captured = prev[last.to].piece
        /\ \A i \in Cells \ {last.from, last.to} : squares[i] = prev[i]

\* A successful move_to that captured the piece on its target.
C2_Witness ==
    /\ last.op = "move_to" /\ last.res = "Ok"
    /\ IsSome(last.captured)
    /\ squares # prev

\* C3: the king's move to a neighbouring square that an opposing piece attacks
\* once the king stands there is answered UnSafeKing.
C3_KingNeverEntersAttack ==
    (/\ KingMoveAsked
     /\ Attacked(KingMoved(prev, last.from, last.to), last.to,
                 OppositeColor(Unwrap(prev[last.from].piece).color)))
        => last.res = "UnSafeKing"

\* C4: is_check is true exactly when an opposing rook, bishop, queen or knight
\* has can_move_to Ok for the king's square or an opposing pawn attacks it.
C4_CheckExactly ==
    (last.op = "is_king_check" /\ KingCells(prev, last.color) # {}) =>
        \A k \in KingCells(prev, last.color) :
            (last.res = "True") <=>
                \/ \E p \in Opposing(prev, last.color, {"Rook", "Bishop", "Queen", "Knight"}) :
                       SliderCanMoveTo(Unwrap(prev[p].piece), from_index(k), prev) = "Ok"
                \/ \E p \in Opposing(prev, last.color, {"Pawn"}) :
                       PawnAttacks(OppositeColor(last.color), p, k)

\* C5: in is_check and in the king's can_move_to an opposing pawn counts as
\* attacking a square exactly when the square is one rank ahead of the pawn in
\* the pawn's direction and on an adjacent file (boards whose opposing pieces
\* are all pawns show the pawn test alone).
C5_PawnAttackByDirection ==
    /\ (/\ last.op = "is_king_check"
        /\ KingCells(prev, last.color) # {}
        /\ Opposing(prev, last.color, Kinds \ {"Pawn"}) = {})
           => \A k \in KingCells(prev, last.color) :
                  (last.res = "True") <=>
                      \E p \in Opposing(prev, last.color, {"Pawn"}) :
                          PawnAttacks(OppositeColor(last.color), p, k)
    /\ (/\ KingMoveAsked
        /\ Opposing(prev, Unwrap(prev[last.from].piece).color, Kinds \ {"Pawn"}) = {})
           => ((last.res = "UnSafeKing") <=>
                  \E p \in Opposing(prev, Unwrap(prev[last.from].piece).color, {"Pawn"}) :
                      PawnAttacks(Unwrap(prev[p].piece).color, p, last.to))

\* The board on which the king of square k has captured the piece on n.
Captured(board, k, n) == [board EXCEPT ![k].piece = None, ![n].piece = None]

\* C6: can_king_move_safe_position returns true exactly when a neighbouring
\* square holds an enemy piece and, with the king moved onto it and that piece
\* removed, is_check of the king there is false.
C6_EscapeExactly ==
    (last.op = "can_king_move_safe_position" /\ KingCells(prev, last.color) # {}) =>
        \A k \in KingCells(prev, last.color) :
            (last.res = "True") <=>
                \E n \in Opposing(prev, last.color, Kinds) :
                    /\ KingStep(k, n)
                    /\ is_check(Piece("King", last.color, from_index(n), FALSE),
                                Captured(prev, k, n)) = "False"

\* C7: can_king_move_safe_position reads only squares of the board one king
\* step away from the king, and returns a boolean.
C7_EscapeReadsNeighbours ==
    (last.op = "can_king_move_safe_position" /\ KingCells(prev, last.color) # {}) =>
        /\ last.res \in {"True", "False"}
        /\ \A k \in KingCells(prev, last.color) :
               \A n \in 1 .. Len(last.probed) :
                   InVec(last.probed[n]) /\ KingStep(k, last.probed[n])

\* C8: generate_move and can_king_move_safe_position leave every cell of the
\* board they are given unchanged, whatever they return.
C8_SearchLeavesBoard ==
    (last.op \in {"generate_move", "can_king_move_safe_position"}) => squares = prev

\* generate_move tried moves on copies and returned one of them.
C8_Witness ==
    /\ last.op = "generate_move"
    /\ IsSome(last.move)
    /\ Cardinality(Occupied(prev)) >= 2

\* The candidate moves of the claim: piece j of the colour in vector order and
\* the k-th position of its possible_moves.
Candidates(board, color) ==
    LET pieces == PiecesOf(board, color)
    IN  {c \in (1 .. Len(pieces)) \X (1 .. 32) :
            c[2] <= Len(possible_moves(pieces[c[1]], board).positions)}

CandidateMove(board, color, c) ==
    LET piece == PiecesOf(board, color)[c[1]]
    IN  [piece |-> piece, position |-> possible_moves(piece, board).positions[c[2]]]

CandidateScore(board, color, c) ==
    LET m == CandidateMove(board, color, c)
        moved == move_to(m.piece, m.position, board)
    IN  IF moved.res = "Ok" THEN evaluate(moved.board, color) ELSE 0

Earlier(c, d) == c[1] < d[1] \/ (c[1] = d[1] /\ c[2] <= d[2])

\* The move the claim names: the first of the accepted moves with the largest
\* score, if that score is greater than 0.
Selected(board, color) ==
    LET scored == [c \in Candidates(board, color) |-> CandidateScore(board, color, c)]
        winning == {c \in DOMAIN scored :
                       scored[c] > 0 /\ \A d \in DOMAIN scored : scored[d] <= scored[c]}
    IN  IF winning = {} THEN None
        ELSE Some(CandidateMove(board, color,
                                CHOOSE c \in winning : \A d \in winning : Earlier(c, d)))

\* C9: generate_move returns the first accepted move of the largest score when
\* that score is greater than 0, and none exactly when no accepted move scores
\* more than 0.
C9_FirstBestMove ==
    (last.op = "generate_move") =>
        /\ last.res = "Ok"
        /\ last.move = Selected(prev, last.color)

\* C10: generate_move for White on the opening position returns some move.
C10_OpeningMove ==
    (last.op = "generate_move" /\ last.color = "White" /\ prev = new_board) =>
        (last.res = "Ok" /\ IsSome(last.move))

(***************************************************************************)
(* The rule queries.  A behaviour of RuleSpec sets a board up and makes    *)
(* one call of a function that leaves the board alone: a Position          *)
(* conversion, Board::evaluate, or the can_move_to of a rule module with a *)
(* position and a colour of the caller's choice.  last is the call with    *)
(* what it returned.                                                       *)
(***************************************************************************)
MaxBlockers == 2

\* The pieces that stand in the way or on the target of a queried move.
RulePool ==
    { Placement("Bishop", "White", 27), Placement("Pawn", "Black", 36),
      Placement("Pawn", "Black", 15), Placement("Knight", "Black", 24),
      Placement("Rook", "White", 3) }

\* The opening board without the pieces of `cells`, as the tests of evaluate
\* set it up.
Without(cells) ==
    [i \in Cells |-> IF i \in cells THEN [new_board[i] EXCEPT !.piece = None]
                     ELSE new_board[i]]

\* The board of the largest score a colour can have: a king on every square.
Crowded ==
    [i \in Cells |->
        [empty_board[i] EXCEPT !.piece = Some(Piece("King", "White", from_index(i), FALSE))]]

RuleBoards ==
    {new_board, Without({1, 6}), Without((0 .. 15) \ {4}), Crowded} \cup
    {SetUp(ps) : ps \in {qs \in SUBSET RulePool : Cardinality(qs) <= MaxBlockers}}

\* The character codes and ranks a caller may hand to Position::new: the
\* files a..h and ranks 1..8 with one value beyond them at either end.
FileCodes == (CharA - 1) .. (CharA + BOARD_SIZE)
RankValues == 0 .. (BOARD_SIZE + 1)

\* The files a..h as character codes and the ranks 1..8.
Files == CharA .. (CharA + BOARD_SIZE - 1)
Ranks == 1 .. BOARD_SIZE

Asked(op, color, from, to, first, res, moves, position, value_returned) ==
    [op |-> op, color |-> color, from |-> from, to |-> to, first |-> first,
     res |-> res, moves |-> moves, position |-> position, value |-> value_returned]

RuleInit ==
    /\ squares \in RuleBoards
    /\ prev = squares
    /\ last = Asked("setup", "-", 0, 0, FALSE, "-", <<>>, None, 0)

\* A call that returned `returned` and left the board as it was.
Answered(returned) == Step(squares, returned)

\* Position::new(x, y): the value is built from whatever it is given; value is
\* the index the position maps to.
PositionNew ==
    /\ last.op = "setup"
    /\ \E x \in FileCodes, y \in RankValues :
           Answered(Asked("Position_new", "-", 0, 0, FALSE, "Ok", <<>>,
                          Some(Position_new(x, y)), to_index(Position_new(x, y))))

\* position.to_index() of a position of the board: position is the argument,
\* value the index returned.
ToIndex ==
    /\ last.op = "setup"
    /\ \E x \in Files, y \in Ranks :
           Answered(Asked("to_index", "-", 0, 0, FALSE, "Ok", <<>>,
                          Some(Position_new(x, y)), to_index(Position_new(x, y))))

\* Position::from_index(i) of an index of the board: from is the argument,
\* position the value returned.
FromIndex ==
    /\ last.op = "setup"
    /\ \E i \in Cells :
           Answered(Asked("from_index", "-", i, 0, FALSE, "Ok", <<>>,
                          Some(from_index(i)), 0))

\* board.evaluate(color)
Evaluate ==
    /\ last.op = "setup"
    /\ \E color \in Colors :
           Answered(Asked("evaluate", color, 0, 0, FALSE, "Ok", <<>>, None,
                          evaluate(squares, color)))

\* The record of a can_move_to call of rule module `module`.
CanMove(module, color, from, to, first, res) ==
    Answered(Asked(module, color, from, to, first, res, <<>>, None, 0))

RookCanMoveTo ==
    /\ last.op = "setup"
    /\ \E color \in Colors, from \in Cells, to \in Cells :
           CanMove("rook::can_move_to", color, from, to, FALSE,
                   rook_can_move_to(from_index(from), color, from_index(to), squares))

BishopCanMoveTo ==
    /\ last.op = "setup"
    /\ \E color \in Colors, from \in Cells, to \in Cells :
           CanMove("bishop::can_move_to", color, from, to, FALSE,
                   bishop_can_move_to(from_index(from), color, from_index(to), squares))

QueenCanMoveTo ==
    /\ last.op = "setup"
    /\ \E color \in Colors, from \in Cells, to \in Cells :
           CanMove("queen::can_move_to", color, from, to, FALSE,
                   queen_can_move_to(from_index(from), color, from_index(to), squares))

KnightCanMoveTo ==
    /\ last.op = "setup"
    /\ \E color \in Colors, from \in Cells, to \in Cells :
           CanMove("knight::can_move_to", color, from, to, FALSE,
                   knight_can_move_to(from_index(from), color, from_index(to), squares))

KingCanMoveTo ==
    /\ last.op = "setup"
    /\ \E color \in Colors, from \in Cells, to \in Cells :
           CanMove("king::can_move_to", color, from, to, FALSE,
                   king_can_move_to(from_index(from), color, from_index(to), squares))

PawnCanMoveTo ==
    /\ last.op = "setup"
    /\ \E color \in Colors, from \in Cells, to \in Cells, first \in BOOLEAN :
           CanMove("pawn::can_move_to", color, from, to, first,
                   pawn_can_move_to(from_index(from), color, first, from_index(to), squares))

\* The record of a possible_moves call: the positions as indices, in order.
Listed(module, color, from, first, r) ==
    Answered(Asked(module, color, from, 0, first, r.res,
                   [k \in 1 .. Len(r.positions) |-> to_index(r.positions[k])], None, 0))

KingPossibleMoves ==
    /\ last.op = "setup"
    /\ \E color \in Colors, from \in Cells :
           Listed("king::possible_moves", color, from, FALSE,
                  king_possible_moves(from_index(from), color, squares))

RookPossibleMoves ==
    /\ last.op = "setup"
    /\ \E color \in Colors, from \in Cells :
           Listed("rook::possible_moves", color, from, FALSE,
                  rook_possible_moves(from_index(from), color, squares))

BishopPossibleMoves ==
    /\ last.op = "setup"
    /\ \E color \in Colors, from \in Cells :
           Listed("bishop::possible_moves", color, from, FALSE,
                  bishop_possible_moves(from_index(from), color, squares))

QueenPossibleMoves ==
    /\ last.op = "setup"
    /\ \E color \in Colors, from \in Cells :
           Listed("queen::possible_moves", color, from, FALSE,
                  queen_possible_moves(from_index(from), color, squares))

KnightPossibleMoves ==
    /\ last.op = "setup"
    /\ \E color \in Colors, from \in Cells :
           Listed("knight::possible_moves", color, from, FALSE,
                  knight_possible_moves(from_index(from), color, squares))

PawnPossibleMovesAt ==
    /\ last.op = "setup"
    /\ \E color \in Colors, from \in Cells, first \in BOOLEAN :
           Listed("pawn::possible_moves", color, from, first,
                  pawn_possible_moves(from_index(from), color, first, squares))

RuleNext ==
    \/ PositionNew
    \/ ToIndex
    \/ FromIndex
    \/ Evaluate
    \/ RookCanMoveTo
    \/ BishopCanMoveTo
    \/ QueenCanMoveTo
    \/ KnightCanMoveTo
    \/ KingCanMoveTo
    \/ PawnCanMoveTo
    \/ KingPossibleMoves
    \/ RookPossibleMoves
    \/ BishopPossibleMoves
    \/ QueenPossibleMoves
    \/ KnightPossibleMoves
    \/ PawnPossibleMovesAt

RuleSpec == RuleInit /\ [][RuleNext]_vars

(***************************************************************************)
(* The claims about the rule queries.                                      *)
(***************************************************************************)

\* C11: the index mapping is a bijection between the 64 positions and 0..63:
\* to_index(from_index(i)) = i for every index of the board, and for every file
\* a..h and rank 1..8, to_index(p) = (file - 'a') + (rank - 1) * 8 and
\* from_index(to_index(p)) = p.
C11_IndexBijection ==
    /\ (last.op = "from_index") => to_index(Unwrap(last.position)) = last.from
    /\ (last.op = "to_index") =>
           /\ last.value = (Unwrap(last.position).x - CharA)
                               + (Unwrap(last.position).y - 1) * BOARD_SIZE
           /\ from_index(last.value) = Unwrap(last.position)

\* to_index of h8 has returned 63.
C11_Witness ==
    /\ last.op = "to_index"
    /\ Unwrap(last.position) = Position_new(CharA + 7, 8)
    /\ last.value = 63

\* C12: Position::new with a file outside a..h or a rank outside 1..8 is
\* rejected at construction, so that no position off the board exists.
C12_ConstructionRejects ==
    (/\ last.op = "Position_new"
     /\ \/ Unwrap(last.position).x \notin Files
        \/ Unwrap(last.position).y \notin Ranks)
        => last.res = "Panic"

\* The value the spec gives a piece of each kind.
Worth(kind) ==
    CASE kind = "Pawn" -> 1
      [] kind = "Knight" -> 3
      [] kind = "Bishop" -> 3
      [] kind = "Rook" -> 5
      [] kind = "Queen" -> 9
      [] OTHER -> KingValue

\* The sum of the values of the pieces of `color` on the squares lo..hi, as an
\* integer of any size.
RECURSIVE Material(_, _, _, _)
Material(board, color, lo, hi) ==
    IF lo = hi
    THEN IF IsSome(board[lo].piece) /\ Unwrap(board[lo].piece).color = color
         THEN Worth(Unwrap(board[lo].piece).kind)
         ELSE 0
    ELSE Material(board, color, lo, (lo + hi) \div 2)
             + Material(board, color, (lo + hi) \div 2 + 1, hi)

\* C13: evaluate(colour) is the sum of the values of colour's pieces minus the
\* sum of the values of the other colour's pieces, without wrapping in 16
\* bits: 0 on the opening board, -6 for White without its knights, -39 for
\* White with its king alone.
C13_MaterialScore ==
    (last.op = "evaluate") =>
        /\ last.value = Material(prev, last.color, 0, BOARD_SQUARES - 1)
                          - Material(prev, OppositeColor(last.color), 0, BOARD_SQUARES - 1)
        /\ (prev = new_board) => last.value = 0
        /\ (prev = Without({1, 6}) /\ last.color = "White") => last.value = -6
        /\ (prev = Without((0 .. 15) \ {4}) /\ last.color = "White") => last.value = -39

\* evaluate(White) has returned -39 for the opening board with White's king alone.
C13_Witness ==
    /\ last.op = "evaluate" /\ last.color = "White"
    /\ prev = Without((0 .. 15) \ {4})
    /\ last.value = -39

\* The square holds a piece of the colour.
Own(board, color, t) == IsSome(board[t].piece) /\ Unwrap(board[t].piece).color = color

\* The chess rule of a rook, a bishop and a knight of `color` moving from a to b.
RookLegal(board, color, a, b) == Straight(a, b) /\ Clear(board, a, b) /\ ~Own(board, color, b)
BishopLegal(board, color, a, b) == Diagonal(a, b) /\ Clear(board, a, b) /\ ~Own(board, color, b)
KnightJump(a, b) == {Abs(File(a) - File(b)), Abs(Rank(a) - Rank(b))} = {1, 2}
KnightLegal(board, color, a, b) == KnightJump(a, b) /\ ~Own(board, color, b)

\* C14: rook can_move_to returns Ok exactly when the target differs from the
\* source, is on its rank or its file, every square strictly between them is
\* empty and the target holds no piece of the rook's colour.
C14_RookExactly ==
    (last.op = "rook::can_move_to") =>
        ((last.res = "Ok") <=> RookLegal(prev, last.color, last.from, last.to))

\* A rook move along a rank over empty squares onto an enemy piece was found legal.
C14_Witness ==
    /\ last.op = "rook::can_move_to" /\ last.res = "Ok"
    /\ Rank(last.from) = Rank(last.to) /\ Abs(last.from - last.to) >= 2
    /\ Own(prev, OppositeColor(last.color), last.to)

\* C15: bishop can_move_to returns Ok exactly when the target is on a true
\* diagonal of the source, every square strictly between them on it is empty
\* and the target holds no piece of the bishop's colour; a target that is no
\* diagonal target although the index delta is a multiple of 7 or 9 is
\* answered InvalidMove.
C15_BishopExactly ==
    (last.op = "bishop::can_move_to") =>
        /\ (last.res = "Ok") <=> BishopLegal(prev, last.color, last.from, last.to)
        /\ (last.from # last.to /\ ~Diagonal(last.from, last.to)) => last.res = "InvalidMove"

\* C16: queen can_move_to returns Ok exactly when a correct rook move or a
\* correct bishop move between the two squares is legal.
C16_QueenExactly ==
    (last.op = "queen::can_move_to") =>
        ((last.res = "Ok") <=>
            \/ RookLegal(prev, last.color, last.from, last.to)
            \/ BishopLegal(prev, last.color, last.from, last.to))

\* C17: knight can_move_to returns Ok exactly when the file and rank
\* differences are 1 and 2 in either order and the target holds no piece of
\* the knight's colour; a target that is no knight jump is answered
\* InvalidMove.
C17_KnightExactly ==
    (last.op = "knight::can_move_to") =>
        /\ (last.res = "Ok") <=> KnightLegal(prev, last.color, last.from, last.to)
        /\ ~KnightJump(last.from, last.to) => last.res = "InvalidMove"

\* The indices of a list of moves.
Listing(moves) == {moves[k] : k \in 1 .. Len(moves)}

\* C18: king can_move_to returns InvalidMove for every target that is not one
\* king step away; king possible_moves lists exactly the neighbours on an
\* empty board and nothing for the king on e1 of the opening position.
C18_KingOneStep ==
    /\ (last.op = "king::can_move_to" /\ ~KingStep(last.from, last.to))
           => last.res = "InvalidMove"
    /\ (last.op = "king::possible_moves" /\ prev = empty_board)
           => /\ last.res = "Ok"
              /\ Listing(last.moves) = {n \in Cells : KingStep(last.from, n)}
              /\ Len(last.moves) = Cardinality(Listing(last.moves))
    /\ (last.op = "king::possible_moves" /\ prev = new_board
            /\ last.from = 4 /\ last.color = "White")
           => (last.res = "Ok" /\ last.moves = <<>>)

\* The chess rule of a pawn of `color` moving from a to b.
PawnLegal(board, color, first, a, b) ==
    LET ahead == IF color = "White" THEN 1 ELSE -1
    IN  \/ /\ File(b) = File(a) /\ Rank(b) = Rank(a) + ahead
           /\ ~IsSome(board[b].piece)
        \/ /\ File(b) = File(a) /\ Rank(b) = Rank(a) + 2 * ahead
           /\ first
           /\ ~IsSome(board[b].piece)
        \/ /\ Abs(File(b) - File(a)) = 1 /\ Rank(b) = Rank(a) + ahead
           /\ Own(board, OppositeColor(color), b)

\* C19: pawn can_move_to returns Ok for a step ahead onto an empty square, for
\* two steps ahead onto an empty square while the first-move flag is set and
\* for a diagonal step ahead onto an enemy piece, and InvalidMove otherwise.
C19_PawnExactly ==
    (last.op = "pawn::can_move_to") =>
        IF PawnLegal(prev, last.color, last.first, last.from, last.to)
        THEN last.res = "Ok"
        ELSE last.res = "InvalidMove"

(***************************************************************************)
(* Pawn play.  A behaviour of PawnSpec sets a board up with pawns on their *)
(* home ranks and moves the pawns of the board one after the other through *)
(* pawn_move_to, each call with the pawn that stands on the square, as     *)
(* Board::move_piece hands it over; possible_moves may be asked at any     *)
(* point.  last carries, for every pawn named by the square it started on, *)
(* the square it stands on (-1 once captured), the number of moves it has  *)
(* made and the number of two-square advances among them.                  *)
(***************************************************************************)
MaxMoves == 3

\* The home rank of the pawns of a colour, as indices.
HomeRank(color) ==
    IF color = "White" THEN BOARD_SIZE .. (2 * BOARD_SIZE - 1)
    ELSE (BOARD_SQUARES - 2 * BOARD_SIZE) .. (BOARD_SQUARES - BOARD_SIZE - 1)

PawnPool ==
    { Placement("Pawn", "White", 12), Placement("Pawn", "White", 15),
      Placement("Pawn", "Black", 51), Placement("Knight", "Black", 24) }

\* The empty board with the pieces of ps, a pawn on its home rank with its
\* first-move flag set as fill_white and fill_black set it.
SetUpFresh(ps) ==
    [i \in Cells |->
        IF \E p \in ps : p.cell = i
        THEN LET p == CHOOSE q \in ps : q.cell = i
             IN  [empty_board[i] EXCEPT !.piece =
                     Some(Piece(p.kind, p.color, from_index(i),
                                p.kind = "Pawn" /\ i \in HomeRank(p.color)))]
        ELSE empty_board[i]]

PawnBoards == {SetUpFresh(ps) : ps \in SUBSET PawnPool}

PawnCells(board) ==
    {i \in Occupied(board) : Unwrap(board[i].piece).kind = "Pawn"}

\* The offsets of the targets a pawn is asked to move to.
PawnDeltas == {7, 8, 9, 16, -7, -8, -9, -16}

Played(op, color, from, to, first, res, moves, count, where, made, doubles) ==
    [op |-> op, color |-> color, from |-> from, to |-> to, first |-> first,
     res |-> res, moves |-> moves, count |-> count, where |-> where,
     made |-> made, doubles |-> doubles]

PawnInit ==
    /\ squares \in PawnBoards
    /\ prev = squares
    /\ last = Played("setup", "-", 0, 0, FALSE, "-", <<>>, 0,
                     [c \in PawnCells(squares) |-> c],
                     [c \in PawnCells(squares) |->
                         IF Unwrap(squares[c].piece).first THEN 0 ELSE 1],
                     [c \in PawnCells(squares) |-> 0])

\* The record after the pawn of `from` was asked to move to `to` and the rule
\* answered r.
PlayedAfter(before, pawn, from, to, r) ==
    LET ok == r.res = "Ok"
        mover(c) == before.where[c] = from
    IN  Played("pawn_move_to", pawn.color, from, to, pawn.first, r.res, <<>>,
               before.count + 1,
               [c \in DOMAIN before.where |->
                   IF ok /\ mover(c) THEN to
                   ELSE IF ok /\ before.where[c] = to THEN -1
                   ELSE before.where[c]],
               [c \in DOMAIN before.made |->
                   IF ok /\ mover(c) THEN before.made[c] + 1 ELSE before.made[c]],
               [c \in DOMAIN before.doubles |->
                   IF ok /\ mover(c) /\ Abs(to - from) = 2 * BOARD_SIZE
                   THEN before.doubles[c] + 1 ELSE before.doubles[c]])

PawnMoved(before, pawn, from, to, r) ==
    Step(r.board, PlayedAfter(before, pawn, from, to, r))

\* pawn_move_to with the pawn that stands on `from`.
PawnMoveTo ==
    /\ last.op \in {"setup", "pawn_move_to"}
    /\ last.count < MaxMoves
    /\ \E from \in PawnCells(squares), d \in PawnDeltas :
           /\ from + d \in Cells
           /\ PawnMoved(last, Unwrap(squares[from].piece), from, from + d,
                        pawn_move_to(Unwrap(squares[from].piece),
                                     from_index(from + d), squares))

PawnListed(before, color, from, first, r) ==
    Step(squares,
         Played("pawn::possible_moves", color, from, 0, first, r.res,
                [k \in 1 .. Len(r.positions) |-> to_index(r.positions[k])],
                before.count, before.where, before.made, before.doubles))

\* pawn::possible_moves for a home-rank square with the flag of the caller's choice.
PawnPossibleMoves ==
    /\ last.op \in {"setup", "pawn_move_to"}
    /\ \E color \in Colors, first \in BOOLEAN :
       \E from \in HomeRank(color) :
           PawnListed(last, color, from, first,
                      pawn_possible_moves(from_index(from), color, first, squares))

PawnNext ==
    \/ PawnMoveTo
    \/ PawnPossibleMoves

PawnSpec == PawnInit /\ [][PawnNext]_vars

\* The square `steps` ranks ahead of a for a pawn of the colour.
Ahead(color, a, steps) ==
    a + (IF color = "White" THEN steps ELSE -steps) * BOARD_SIZE

\* C20: a successful pawn move_to stores the pawn on the target with its
\* first-move flag false; no pawn makes more than one two-square advance, and
\* it makes it as its first move; a home-rank pawn whose two squares ahead are
\* empty (and which has nothing to capture) has 2 possible moves while the
\* flag is set and 1 once it is cleared.
C20_FirstMoveOnce ==
    /\ (last.op = "pawn_move_to" /\ last.res = "Ok") =>
           /\ squares[last.to].piece
                  = Some(Piece("Pawn", last.color, from_index(last.to), FALSE))
           /\ Abs(last.to - last.from) = 2 * BOARD_SIZE =>
                  \A c \in DOMAIN last.where :
                      last.where[c] = last.to => last.made[c] = 1
    /\ (last.op \in {"setup", "pawn_move_to"}) =>
           \A c \in DOMAIN last.doubles : last.doubles[c] <= 1
    /\ (/\ last.op = "pawn::possible_moves"
        /\ ~IsSome(prev[Ahead(last.color, last.from, 1)].piece)
        /\ ~IsSome(prev[Ahead(last.color, last.from, 2)].piece)
        /\ \A t \in Cells :
               PawnAttacks(last.color, last.from, t) =>
                   ~Own(prev, OppositeColor(last.color), t))
           => /\ last.res = "Ok"
              /\ Len(last.moves) = (IF last.first THEN 2 ELSE 1)

\* The squares a rook, a bishop or a queen of `color` on a reaches by the rules
\* of chess: along each ray up to the edge or the first occupied square, that
\* square included when it holds an enemy piece.
Reach(module, board, color, a) ==
    {b \in Cells :
        \/ module \in {"rook::possible_moves", "queen::possible_moves"}
               /\ RookLegal(board, color, a, b)
        \/ module \in {"bishop::possible_moves", "queen::possible_moves"}
               /\ BishopLegal(board, color, a, b)}

\* C21: possible_moves of rook, bishop and queen returns exactly the squares of
\* the piece's rays up to the board edge or the first occupied square (that
\* square included when it holds an enemy piece), and no square off the board
\* or reached by wrapping: 14 squares for a rook on a1 of the empty board, 8
\* for a bishop on d4 of the opening position.
C21_SliderRays ==
    (last.op \in {"rook::possible_moves", "bishop::possible_moves", "queen::possible_moves"})
        => /\ last.res = "Ok"
           /\ Listing(last.moves) = Reach(last.op, prev, last.color, last.from)
           /\ (last.op = "rook::possible_moves" /\ prev = empty_board /\ last.from = 0)
                  => Cardinality(Listing(last.moves)) = 14
           /\ (last.op = "bishop::possible_moves" /\ prev = new_board /\ last.from = 27)
                  => Cardinality(Listing(last.moves)) = 8


(***************************************************************************)
(* The squares a can_move_to reads on its way.                             *)
(***************************************************************************)
\* The indices the path walk hands to board.square, in order, the one that
\* ends the walk (an occupied square, or one outside the vector) included.
RECURSIVE PathReads(_, _, _, _, _)
PathReads(board, index, new_index, step, useAbs) ==
    IF index = new_index THEN <<>>
    ELSE LET at == from_index(IF useAbs THEN Abs(index) ELSE index)
         IN  IF ~SquareOk(at) THEN <<to_index(at)>>
             ELSE IF IsSome(square(board, at).piece) THEN <<to_index(at)>>
             ELSE <<to_index(at)>> \o PathReads(board, index + step, new_index, step, useAbs)

\* The reads of the walk of `module` for the move current_position -> position:
\* none when the geometry tests reject the move before the walk.
WalkReads(module, current_position, position, board) ==
    LET new_index == to_index(position)
        old_index == to_index(current_position)
        jump == new_index - old_index
        up == new_index > old_index
        rook_reads ==
            IF TruncRem(jump, 8) = 0
            THEN PathReads(board, IF up THEN old_index + 8 ELSE old_index - 8, new_index,
                           IF up THEN 8 ELSE -8, FALSE)
            ELSE PathReads(board, IF up THEN old_index + 1 ELSE old_index - 1, new_index,
                           IF up THEN 1 ELSE -1, FALSE)
        bishop_reads ==
            IF TruncRem(jump, 7) = 0
            THEN PathReads(board, IF up THEN old_index + 7 ELSE old_index - 7, new_index,
                           IF up THEN 7 ELSE -7, ~up)
            ELSE PathReads(board, IF up THEN old_index + 9 ELSE old_index - 9, new_index,
                           IF up THEN 9 ELSE -9, ~up)
    IN  CASE module = "rook::can_move_to" ->
                IF Abs(jump) < 8 /\ position.y # current_position.y THEN <<>>
                ELSE IF TruncRem(jump, 8) # 0 /\ TruncDiv(jump, 8) # 0 THEN <<>>
                ELSE rook_reads
          [] module = "bishop::can_move_to" ->
                IF TruncRem(jump, 7) # 0 /\ TruncRem(jump, 9) # 0 THEN <<>>
                ELSE bishop_reads
          [] module = "queen::can_move_to" ->
                IF /\ TruncRem(jump, 7) # 0 /\ TruncRem(jump, 9) # 0
                   /\ TruncRem(jump, 8) # 0 /\ TruncDiv(jump, 8) # 0 THEN <<>>
                ELSE IF Abs(jump) < 7 /\ position.y # current_position.y THEN <<>>
                ELSE IF TruncRem(jump, 8) = 0
                        \/ (TruncDiv(jump, 8) = 0 /\ position.y = current_position.y)
                THEN rook_reads
                ELSE IF TruncRem(jump, 7) = 0 \/ TruncRem(jump, 9) = 0
                THEN bishop_reads
                ELSE <<>>
          [] OTHER -> <<>>

CanMoveOps ==
    {"rook::can_move_to", "bishop::can_move_to", "queen::can_move_to",
     "knight::can_move_to", "king::can_move_to", "pawn::can_move_to"}

\* C23: every can_move_to query, the zero-length move to = from included,
\* returns Ok or a ChessError; the walk of a rook, bishop or queen reads at
\* most 8 squares, each one a cell of the board strictly between the
\* source and the target.
C23_WalkStaysOnPath ==
    (last.op \in CanMoveOps)
        => /\ last.res \in {"Ok"} \cup ChessErrors
           /\ LET reads == WalkReads(last.op, from_index(last.from),
                                     from_index(last.to), prev)
              IN  /\ Len(reads) <= BOARD_SIZE
                  /\ \A k \in 1 .. Len(reads) :
                         /\ reads[k] \in Cells
                         /\ \/ last.from < reads[k] /\ reads[k] < last.to
                            \/ last.to < reads[k] /\ reads[k] < last.from


\* The targets the geometry of the slider of `module` allows from a.
Geometry(module, a, b) ==
    \/ module \in {"rook::can_move_to", "queen::can_move_to"} /\ Straight(a, b)
    \/ module \in {"bishop::can_move_to", "queen::can_move_to"} /\ Diagonal(a, b)

\* C24: the can_move_to of a rook, a bishop and a queen answers InvalidMove
\* for a target outside the piece's geometry whatever stands on it, else
\* BlockedMove when a square strictly between source and target is occupied,
\* else InvalidCapture when the target holds a piece of the mover's colour.
C24_ErrorPrecedence ==
    (last.op \in {"rook::can_move_to", "bishop::can_move_to", "queen::can_move_to"})
        => IF ~Geometry(last.op, last.from, last.to) THEN last.res = "InvalidMove"
           ELSE IF ~Clear(prev, last.from, last.to) THEN last.res = "BlockedMove"
           ELSE Own(prev, last.color, last.to) => last.res = "InvalidCapture"


PossibleOps ==
    {"rook::possible_moves", "bishop::possible_moves", "queen::possible_moves",
     "knight::possible_moves", "king::possible_moves", "pawn::possible_moves"}

\* The can_move_to of the rule module whose possible_moves is `module`.
Accepts(module, board, color, first, a, b) ==
    CASE module = "rook::possible_moves" ->
            rook_can_move_to(from_index(a), color, from_index(b), board)
      [] module = "bishop::possible_moves" ->
            bishop_can_move_to(from_index(a), color, from_index(b), board)
      [] module = "queen::possible_moves" ->
            queen_can_move_to(from_index(a), color, from_index(b), board)
      [] module = "knight::possible_moves" ->
            knight_can_move_to(from_index(a), color, from_index(b), board)
      [] module = "king::possible_moves" ->
            king_can_move_to(from_index(a), color, from_index(b), board)
      [] OTHER ->
            pawn_can_move_to(from_index(a), color, first, from_index(b), board)

\* C26: possible_moves of every rule module returns, without reading outside
\* the board, exactly the squares of the board that the module's can_move_to
\* accepts from the same square for the same colour.
C26_ListedIffAccepted ==
    (last.op \in PossibleOps)
        => /\ last.res = "Ok"
           /\ Listing(last.moves) =
                  {b \in Cells : Accepts(last.op, prev, last.color, last.first,
                                         last.from, b) = "Ok"}


\* C27: with a piece on the square directly in front of a pawn, pawn
\* can_move_to accepts neither the one-square nor the two-square advance.
C27_NoJumpOver ==
    (/\ last.op = "pawn::can_move_to"
     /\ Ahead(last.color, last.from, 1) \in Cells
     /\ IsSome(prev[Ahead(last.color, last.from, 1)].piece)
     /\ last.to \in {Ahead(last.color, last.from, 1), Ahead(last.color, last.from, 2)})
        => last.res # "Ok"


\* The number of pieces of the opening position.
OpeningPieces == Cardinality(Occupied(new_board))

\* C28: a successful move_piece removes at most one piece from the board,
\* the one that stood on the destination, of the colour opposite to the
\* moved piece, and returns it; a move_piece that returns an error removes
\* none; so from the opening position the pieces on the board and the piece
\* returned make 32.
C28_PiecesConserved ==
    (last.op = "move_piece" /\ last.res \in {"Ok"} \cup ChessErrors)
        => /\ Cardinality(Occupied(squares)) + Len(last.captured)
                  = Cardinality(Occupied(prev))
           /\ (last.res # "Ok") => (last.captured = None /\ Occupied(squares) = Occupied(prev))
           /\ IsSome(last.captured)
                  => /\ last.captured = prev[last.to].piece
                     /\ Unwrap(last.captured).color
                            = OppositeColor(Unwrap(prev[last.from].piece).color)
           /\ (prev = new_board)
                  => Cardinality(Occupied(squares)) + Len(last.captured) = OpeningPieces


(***************************************************************************)
(* The turn driver.  A behaviour of GameSpec is a run of Game::play from    *)
(* Game::new(): squares is game.board, prev the game board before the last *)
(* iteration of the loop, last the rest of the loop's state: the side to   *)
(* move, both players, whether the loop still runs, and the move entered   *)
(* last with what became of it.                                            *)
(***************************************************************************)
MaxPlies == 9

\* The moves entered, as (from, to) pairs of squares of the board.
Entered ==
    { <<12, 28>>, <<28, 36>>, <<36, 44>>, <<44, 51>>, <<51, 60>>,
      <<62, 45>>, <<45, 62>>, <<13, 21>>, <<52, 36>>, <<59, 31>>,
      <<0, 32>>, <<0, 0>> }

\* Game::new() and the first line of play: the opening board, two players
\* without moves, White to move.
GameInit ==
    /\ squares = new_board
    /\ prev = squares
    /\ last = [op |-> "new", turn |-> "White", status |-> "playing",
               white |-> [moves |-> <<>>, captured_pieces |-> <<>>],
               black |-> [moves |-> <<>>, captured_pieces |-> <<>>],
               from |-> 0, to |-> 0, res |-> "-"]

\* The head of an iteration: "checkmate" ends the loop, "panic" the program,
\* "go" reads a move.
StatusOf(board, turn) ==
    LET check == is_king_check(board, turn)
        escape == board_can_king_move_safe_position(board, turn).ret
    IN  IF check = "Panic" THEN "panic"
        ELSE IF check = "False" THEN "go"
        ELSE IF escape = "Panic" THEN "panic"
        ELSE IF escape = "True" THEN "checkmate"
        ELSE "go"

\* The rest of an iteration with the move from -> to entered: result is
\* move_piece on the clone of the game board, exposed is is_king_check of the
\* mover on the board it returns.
Entry(from, to, result, exposed) ==
    LET verdict == IF result.res = "Panic" THEN "panic"
                   ELSE IF result.res # "Ok" THEN "invalid"
                   ELSE IF exposed = "Panic" THEN "panic"
                   ELSE IF exposed = "True" THEN "check"
                   ELSE "accepted"
        player == IF last.turn = "White" THEN last.white ELSE last.black
        pushed == [moves |-> Append(player.moves, <<from, to>>),
                   captured_pieces |-> player.captured_pieces \o result.captured]
    IN  /\ squares' = IF verdict = "accepted" THEN result.board ELSE squares
        /\ prev' = squares
        /\ last' =
              IF verdict = "accepted"
              THEN [op |-> "play", turn |-> OppositeColor(last.turn),
                    status |-> "playing",
                    white |-> IF last.turn = "White" THEN pushed ELSE last.white,
                    black |-> IF last.turn = "Black" THEN pushed ELSE last.black,
                    from |-> from, to |-> to, res |-> verdict]
              ELSE [last EXCEPT !.op = "play", !.from = from, !.to = to,
                                !.res = verdict,
                                !.status = IF verdict = "panic" THEN "panic"
                                           ELSE "playing"]

\* An iteration that reads a move.
EnterMove ==
    /\ last.status = "playing"
    /\ Len(last.white.moves) + Len(last.black.moves) < MaxPlies
    /\ StatusOf(squares, last.turn) = "go"
    /\ \E m \in Entered :
           LET result == move_piece(clone_as_a(squares).tmp, from_index(m[1]),
                                    from_index(m[2]))
           IN  Entry(m[1], m[2], result, is_king_check(result.board, last.turn))

\* An iteration that ends the loop before a move is read.
TurnEnds ==
    /\ last.status = "playing"
    /\ StatusOf(squares, last.turn) # "go"
    /\ squares' = squares
    /\ prev' = squares
    /\ last' = [last EXCEPT !.op = "status", !.status = StatusOf(squares, last.turn)]

GameNext ==
    \/ EnterMove
    \/ TurnEnds

GameSpec == GameInit /\ [][GameNext]_vars

Kings(board, color) ==
    {i \in Cells : IsSome(board[i].piece) /\ Unwrap(board[i].piece).kind = "King"
                   /\ Unwrap(board[i].piece).color = color}

\* C22: every board of a game played from the opening position holds exactly
\* one White king and exactly one Black king.
C22_BothKingsStay ==
    \A color \in Colors : Cardinality(Kings(squares, color)) = 1


\* The game after an iteration that did not accept the move entered.
TurnKept ==
    /\ squares' = squares
    /\ last'.turn = last.turn
    /\ last'.white = last.white /\ last'.black = last.black
    /\ last'.status = "playing"

\* The game after an iteration that accepted the move that gave `result`.
TurnPassed(result) ==
    LET mover == IF last.turn = "White" THEN "white" ELSE "black"
        other == IF last.turn = "White" THEN "black" ELSE "white"
    IN  /\ squares' = result.board
        /\ last'.turn = OppositeColor(last.turn)
        /\ last'.status = "playing"
        /\ last'[mover].moves = Append(last[mover].moves, <<last'.from, last'.to>>)
        /\ last'[mover].captured_pieces
               = IF IsSome(result.captured)
                 THEN Append(last[mover].captured_pieces, Unwrap(result.captured))
                 ELSE last[mover].captured_pieces
        /\ last'[other] = last[other]

TurnTaken(result, exposed) ==
    IF result.res = "Ok" /\ exposed = "False" THEN TurnPassed(result) ELSE TurnKept

\* C25: an entered move that move_piece accepts and that leaves the mover's
\* king out of check passes the turn and updates the game board, the mover's
\* history and the mover's capture list; after any other entered move the
\* game is as it was and the same side is asked again.  White's history is
\* as long as Black's when White is to move and longer by one when Black is.
C25_TurnAdvances ==
    /\ [][(last'.op = "play") =>
             TurnTaken(move_piece(squares, from_index(last'.from), from_index(last'.to)),
                       is_king_check(move_piece(squares, from_index(last'.from),
                                                from_index(last'.to)).board, last.turn))]_vars
    /\ [](Len(last.white.moves) - Len(last.black.moves)
              = IF last.turn = "White" THEN 0 ELSE 1)


(***************************************************************************)
(* Boards as built.  A behaviour of BoardSpec takes a board from one of    *)
(* the constructors, or the empty board with a king and the pieces next to *)
(* it written into their squares, and either makes successful moves on it  *)
(* through move_piece, one after the other, or asks once whether the king  *)
(* can get away.  last is the call made last with what it returned and the *)
(* number of moves made so far.                                            *)
(***************************************************************************)
MaxSteps == 2
MaxNeighbours == 3

\* Board::empty() of the library's Board: the squares with no piece.
Board_empty ==
    [i \in Cells |->
        [piece |-> None, x |-> CharA + (i % 8), y |-> i \div 8]]

\* The pieces that may stand next to a king on e4.
EscapePool ==
    { Placement("Rook", "Black", 35), Placement("Rook", "Black", 37),
      Placement("Knight", "Black", 36), Placement("Pawn", "Black", 19),
      Placement("Bishop", "Black", 29), Placement("Pawn", "White", 20) }

BoardsBuilt ==
    {new_board, empty_board, Board_empty} \cup
    {SetUp(ps \cup {Placement("King", "White", 28)}) :
        ps \in {qs \in SUBSET EscapePool : Cardinality(qs) <= MaxNeighbours}}

Made(op, color, from, to, res, captured, probed, steps) ==
    [op |-> op, color |-> color, from |-> from, to |-> to, res |-> res,
     captured |-> captured, probed |-> probed, steps |-> steps]

BoardInit ==
    /\ squares \in BoardsBuilt
    /\ prev = squares
    /\ last = Made("built", "-", 0, 0, "Ok", None, <<>>, 0)

\* board.move_piece(from, to) after the constructor or a successful move.
BoardMovePiece ==
    /\ last.op \in {"built", "move_piece"}
    /\ last.res = "Ok"
    /\ last.steps < MaxSteps
    /\ \E from \in Cells :
       \E to \in IF IsSome(squares[from].piece) THEN Cells ELSE {from} :
           LET r == move_piece(squares, from_index(from), from_index(to))
           IN  Step(r.board, Made("move_piece", "-", from, to, r.res, r.captured,
                                  <<>>, last.steps + 1))

\* board.can_king_move_safe_position(color) on the board as built.
BoardKingEscape ==
    /\ last.op = "built"
    /\ \E color \in Colors :
           LET r == board_can_king_move_safe_position(squares, color)
           IN  Step(r.board, Made("can_king_move_safe_position", color, 0, 0, r.ret,
                                  None, r.probed, 0))

BoardNext ==
    \/ BoardMovePiece
    \/ BoardKingEscape

BoardSpec == BoardInit /\ [][BoardNext]_vars

\* C29: on every board a constructor returns and after every successful
\* move, square i carries the file and rank of from_index(i), and a piece
\* on square i carries the position from_index(i).
C29_CellsKeepCoordinates ==
    (last.res = "Ok")
        => \A i \in Cells :
               /\ Position_new(squares[i].x, squares[i].y) = from_index(i)
               /\ IsSome(squares[i].piece)
                      => Unwrap(squares[i].piece).pos = from_index(i)


\* The squares next to square k that can_king_move_safe_position probes.
Probed(k) == {k + ProbeDeltas[j] : j \in 1 .. Len(ProbeDeltas)} \cap Cells

\* The king of `color` taken from k and put on n of `board`, the piece on n
\* removed and nothing else changed, is not in check.
SafeOn(board, color, k, n) ==
    is_check(Piece("King", color, from_index(n), FALSE),
             [board EXCEPT ![k].piece = None, ![n].piece = None]) = "False"

\* C30: every probe of can_king_move_safe_position sees the position it was
\* given with only the king moved onto the probed neighbour and the piece
\* there removed, so the function returns false exactly when some probed
\* neighbour holds an enemy piece on which the king would not be in check,
\* whatever the order of the probes.
C30_ProbesIndependent ==
    (/\ last.op = "can_king_move_safe_position"
     /\ last.res \in {"True", "False"}
     /\ Kings(prev, last.color) # {})
        => LET k == CHOOSE i \in Kings(prev, last.color) : TRUE
           IN  (last.res = "False")
                   <=> \E n \in Probed(k) :
                           /\ Own(prev, OppositeColor(last.color), n)
                           /\ SafeOn(prev, last.color, k, n)

=============================================================================
